---- MODULE Spec2Model ----
(***************************************************************************)
(* BudgetBasket: a scanner node (ATmega2560, RFID reader, button) and a    *)
(* server node (ESP8266, web view) joined by a serial line protocol.       *)
(*                                                                         *)
(* Text is modelled as sequences of one-character strings, so that the     *)
(* encoder (sendStatusToESP) and the decoders (extractTotalAmount,         *)
(* formatItemLines, processLine, the scanner's Budget: branch) work on the *)
(* characters that cross the wire.  Money is held in hundredths (a float   *)
(* printed with two decimals): every amount of the model is a multiple of  *)
(* 0.01 far below 2^24, where float arithmetic on it is exact after the    *)
(* two-decimal print.  Float division by zero follows IEEE-754 (the        *)
(* ESP8266 soft-float build): x/0 is +inf, -inf or NaN.                    *)
(***************************************************************************)
EXTENDS Integers, Sequences, FiniteSets, TLC

(***************************************************************************)
(* Bounds of the model.                                                    *)
(***************************************************************************)
\* most items held in the cart at once (no further tag is presented for an
\* add beyond it)
MaxItems == 3
\* largest quantity of one item in a ledger snapshot drawn for the codec
MaxQuantity == 3
\* most lines in flight from the server to the scanner
MaxToATmega == 3
\* most budget submissions in a session
MaxSubmissions == 1

(***************************************************************************)
(* Characters and the Arduino String operations the program uses.          *)
(***************************************************************************)
Digits == <<"0", "1", "2", "3", "4", "5", "6", "7", "8", "9">>

IsDigit(ch) == \E k \in 1..10 : Digits[k] = ch

DigitVal(ch) == (CHOOSE k \in 1..10 : Digits[k] = ch) - 1

\* isspace(): the blanks that trim() and atof()/atol() skip
IsSpace(ch) == ch \in {" ", "\t", "\n", "\r"}

\* String::startsWith
startsWith(s, prefix) ==
    /\ Len(s) >= Len(prefix)
    /\ SubSeq(s, 1, Len(prefix)) = prefix

\* String::substring(from) with a 0-based index, as in the source
substring(s, from) ==
    IF from >= Len(s) THEN <<>> ELSE SubSeq(s, from + 1, Len(s))

\* an int passed as an unsigned int parameter: a negative one wraps to
\* 2^32 + n, beyond the length of any String; 2^31 - 1, as far beyond any
\* length of the model, stands for it
AsUnsigned(n) == IF n < 0 THEN 2147483647 ELSE n

\* String::substring(left, right): 0-based, right exclusive; the bounds are
\* unsigned, swapped when out of order, and right is clipped to the length
substring2(s, from, to) ==
    LET l == AsUnsigned(from)
        r == AsUnsigned(to)
        lo == IF l > r THEN r ELSE l
        hi == IF l > r THEN l ELSE r
        end == IF hi > Len(s) THEN Len(s) ELSE hi
    IN  IF lo >= Len(s) THEN <<>> ELSE SubSeq(s, lo + 1, end)

\* String::indexOf(pattern, from): 0-based index of the first match, -1 if none
indexOfFrom(s, pat, from) ==
    LET hits == {k \in from..(Len(s) - Len(pat)) :
                    SubSeq(s, k + 1, k + Len(pat)) = pat}
    IN  IF hits = {} THEN -1
        ELSE CHOOSE k \in hits : \A j \in hits : k <= j

indexOf(s, pat) == indexOfFrom(s, pat, 0)

\* String::lastIndexOf(pattern): 0-based index of the last match, -1 if none
lastIndexOf(s, pat) ==
    LET hits == {k \in 0..(Len(s) - Len(pat)) :
                    SubSeq(s, k + 1, k + Len(pat)) = pat}
    IN  IF hits = {} THEN -1
        ELSE CHOOSE k \in hits : \A j \in hits : k >= j

\* String::trim: drop leading and trailing blanks
trim(s) ==
    LET keep == {k \in 1..Len(s) : ~IsSpace(s[k])}
    IN  IF keep = {} THEN <<>>
        ELSE SubSeq(s, CHOOSE k \in keep : \A j \in keep : k <= j,
                       CHOOSE k \in keep : \A j \in keep : k >= j)

\* String(int): decimal digits of a non-negative number
RECURSIVE NatToStr(_)
NatToStr(n) ==
    IF n < 10 THEN <<Digits[n + 1]>>
    ELSE NatToStr(n \div 10) \o <<Digits[(n % 10) + 1]>>

\* String(int)
IntToStr(n) == IF n < 0 THEN <<"-">> \o NatToStr(-n) ELSE NatToStr(n)

\* String(float) and Print::println(float): two decimals; the argument is
\* the amount in hundredths
FloatToStr(h) ==
    LET mag == IF h < 0 THEN -h ELSE h
    IN  (IF h < 0 THEN <<"-">> ELSE <<>>)
        \o NatToStr(mag \div 100)
        \o <<".", Digits[((mag \div 10) % 10) + 1], Digits[(mag % 10) + 1]>>

\* the run of digits of s that starts at 1-based position i: its value and
\* the position after it
RECURSIVE ScanDigits(_, _, _)
ScanDigits(s, i, acc) ==
    IF i <= Len(s) /\ IsDigit(s[i])
    THEN ScanDigits(s, i + 1, acc * 10 + DigitVal(s[i]))
    ELSE [val |-> acc, next |-> i]

\* first position at or after i that holds no blank
RECURSIVE SkipSpace(_, _)
SkipSpace(s, i) ==
    IF i <= Len(s) /\ IsSpace(s[i]) THEN SkipSpace(s, i + 1) ELSE i

\* String::toInt (atol): blanks, sign, digits; stops at the first other
\* character; 0 when there is no number
toInt(s) ==
    LET i0 == SkipSpace(s, 1)
        signed == i0 <= Len(s) /\ s[i0] \in {"-", "+"}
        neg == i0 <= Len(s) /\ s[i0] = "-"
        ip == ScanDigits(s, IF signed THEN i0 + 1 ELSE i0, 0)
    IN  IF neg THEN -ip.val ELSE ip.val

\* String::toFloat (atof), in hundredths: blanks, sign, digits, '.', digits;
\* stops at the first other character; 0 when there is no number.  The
\* texts parsed here carry at most two decimals.
toFloat(s) ==
    LET i0 == SkipSpace(s, 1)
        signed == i0 <= Len(s) /\ s[i0] \in {"-", "+"}
        neg == i0 <= Len(s) /\ s[i0] = "-"
        ip == ScanDigits(s, IF signed THEN i0 + 1 ELSE i0, 0)
        dot == ip.next <= Len(s) /\ s[ip.next] = "."
        d1 == IF dot /\ ip.next + 1 <= Len(s) /\ IsDigit(s[ip.next + 1])
              THEN DigitVal(s[ip.next + 1]) ELSE 0
        d2 == IF dot /\ ip.next + 2 <= Len(s) /\ IsDigit(s[ip.next + 1])
                  /\ IsDigit(s[ip.next + 2])
              THEN DigitVal(s[ip.next + 2]) ELSE 0
        mag == ip.val * 100 + d1 * 10 + d2
    IN  IF neg THEN -mag ELSE mag

(***************************************************************************)
(* The catalog (scanner node) and the texts of the protocol.               *)
(***************************************************************************)
numItems == 4

itemNames ==
    [i \in 0..3 |->
        CASE i = 0 -> <<"M", "i", "l", "k">>
          [] i = 1 -> <<"E", "g", "g">>
          [] i = 2 -> <<"B", "u", "t", "t", "e", "r">>
          [] i = 3 -> <<"C", "h", "o", "c", "o", "l", "a", "t", "e">>]

\* unit prices in hundredths: 7.0, 25.0, 18.0, 20.0
itemPrices ==
    [i \in 0..3 |->
        CASE i = 0 -> 700 [] i = 1 -> 2500 [] i = 2 -> 1800 [] i = 3 -> 2000]

\* tag fingerprints: {4A 5C E2 17}, {3A 64 D2 12}, {92 9A 84 51}, {60 62 9D 55}
itemUIDs ==
    [i \in 0..3 |->
        CASE i = 0 -> <<74, 92, 226, 23>>
          [] i = 1 -> <<58, 100, 210, 18>>
          [] i = 2 -> <<146, 154, 132, 81>>
          [] i = 3 -> <<96, 98, 157, 85>>]

\* a tag that is in no catalog entry: it differs from Milk's in its last byte
StrangerUID == <<74, 92, 226, 24>>

\* no tag in the reader's field
NoCard == <<>>

\* the tags a shopper presents to the reader
Tags == {itemUIDs[i] : i \in 0..3} \cup {StrangerUID}

UpdatePrefix == <<"U", "p", "d", "a", "t", "e", ":">>
TotalMarker == <<"T", "o", "t", "a", "l", ",">>
BudgetPrefix == <<"B", "u", "d", "g", "e", "t", ":">>
BudgetLabel == <<"B", "u", "d", "g", "e", "t", ":", " ">>
PercentageLabel ==
    <<"B", "u", "d", "g", "e", "t", " ", "P", "e", "r", "c", "e", "n", "t",
      "a", "g", "e", ":", " ">>
LowBudget == <<"L", "o", "w", "B", "u", "d", "g", "e", "t">>
NoBudget == <<"N", "o", "B", "u", "d", "g", "e", "t">>

\* Print::println: the text, then CR; the LF that follows it ends the line
\* and is what readStringUntil consumes
println(s) == s \o <<"\r">>

\* the first display row texts
ReadyText ==
    <<"R", "e", "a", "d", "y", " ", "t", "o", " ", "s", "c", "a", "n",
      ".", ".", ".">>
RemoveText ==
    <<"R", "e", "m", "o", "v", "e", " ", "i", "t", "e", "m", ".", ".", ".">>
UnknownText ==
    <<"U", "n", "k", "n", "o", "w", "n", " ", "i", "t", "e", "m">>
NotFoundText ==
    <<"I", "t", "e", "m", " ", "n", "o", "t", " ", "f", "o", "u", "n", "d">>
RemovedText == <<"R", "e", "m", "o", "v", "e", "d">>
KrText == <<" ", "k", "r">>

(***************************************************************************)
(* Program constants.                                                      *)
(***************************************************************************)
\* checkButton: the dwell time of Remove mode, in ms
DwellMs == 5000
\* loop: delay(2000) after a scan, before the ready screen
ScanDelayMs == 2000
\* the time the model lets pass between two iterations of the scanner's loop
TickMs == 1000
\* firstSection: the melody blocks for 18 beeps (7300 ms of notes, 50 ms
\* after each) and two delay(500)
MelodyMs == 9200

(***************************************************************************)
(* State.                                                                  *)
(*                                                                         *)
(* Scanner node: itemCounts, totalPrice, budget, inRemoveMode, the first   *)
(* display row (lcd) and the position of its loop (pc); incomingData is    *)
(* assigned before every use and is local to the step that reads a line.   *)
(* sincePressed is millis() -              *)
(* buttonPressedTime, the only way the program uses either value; it is    *)
(* held at DwellMs + 1 once beyond the dwell time, where the program no    *)
(* longer tells values apart (the subtraction is unsigned, so the wrap of  *)
(* millis() does not change it).                                           *)
(* Server node: totalBudget, remainingBudget, currentData and the last     *)
(* /data response (page).                                                  *)
(* Link: toESP and toATmega, the complete lines in flight each way.        *)
(* card is the tag in the reader's field (mfrc522.uid.uidByte while a scan *)
(* is handled), NoCard when there is none.                                 *)
(* submissions counts the budget forms submitted so far.                   *)
(* History, recorded only by the specification that observes the loop:     *)
(* handled is the sequence of the events the scanner has handled so far in *)
(* the current iteration of its loop, lastScanned the tag of the catalog   *)
(* item it scanned last, once that scan is over.                           *)
(* History, recorded only by the specification in which the link loses     *)
(* lines: latest is what became of the Update frame the scanner sent last  *)
(* ("none" before the first, then "sent", "lost" or "read"), lost the      *)
(* number of Update frames lost so far.                                    *)
(***************************************************************************)
VARIABLES itemCounts, totalPrice, budget, inRemoveMode,
          sincePressed, lcd, pc,
          totalBudget, remainingBudget, currentData, page,
          toESP, toATmega, card, submissions,
          handled, lastScanned, latest, lost

scannerVars == <<itemCounts, totalPrice, budget, inRemoveMode,
                 sincePressed, lcd, pc>>
serverVars == <<totalBudget, remainingBudget, currentData, page>>
vars == <<itemCounts, totalPrice, budget, inRemoveMode,
          sincePressed, lcd, pc,
          totalBudget, remainingBudget, currentData, page, toESP, toATmega,
          card, submissions, handled, lastScanned, latest, lost>>
link == <<latest, lost>>
history == <<handled, lastScanned, latest, lost>>

(***************************************************************************)
(* Scanner node.                                                           *)
(***************************************************************************)
\* updateTotal: the sum of price x count over the catalog, from 0.0
RECURSIVE updateTotalLoop(_, _, _)
updateTotalLoop(counts, i, acc) ==
    IF i < numItems
    THEN updateTotalLoop(counts, i + 1, acc + itemPrices[i] * counts[i])
    ELSE acc

\* a variant of updateTotal that does not start from 0.0 but adds to the
\* stored total
updateTotalNoReset(counts) == updateTotalLoop(counts, 0, totalPrice)

updateTotal(counts) == updateTotalLoop(counts, 0, 0)

\* sendStatusToESP: the text of the Update frame
RECURSIVE statusItems(_, _)
\* a variant of the loop of sendStatusToESP without the test for a held item
statusItemsAll(counts, i) ==
    IF i < numItems
    THEN itemNames[i] \o <<",">> \o IntToStr(counts[i]) \o <<";">>
         \o statusItems(counts, i + 1)
    ELSE <<>>

statusItems(counts, i) ==
    IF i < numItems
    THEN (IF counts[i] > 0
          THEN itemNames[i] \o <<",">> \o IntToStr(counts[i]) \o <<";">>
          ELSE <<>>) \o statusItems(counts, i + 1)
    ELSE <<>>

sendStatusToESP(counts, total) ==
    UpdatePrefix \o statusItems(counts, 0) \o TotalMarker \o FloatToStr(total)

\* a variant of identifyItem that compares the first three bytes only
RECURSIVE identifyPrefixFrom(_, _)
identifyPrefixFrom(id, i) ==
    IF i < numItems
    THEN (IF \A j \in 1..3 : id[j] = itemUIDs[i][j] THEN i
          ELSE identifyPrefixFrom(id, i + 1))
    ELSE -1

identifyItemPrefix(id) == identifyPrefixFrom(id, 0)

\* identifyItem: the first catalog entry whose four bytes all match, or -1
RECURSIVE identifyFrom(_, _)
identifyFrom(id, i) ==
    IF i < numItems
    THEN (IF \A j \in 1..4 : id[j] = itemUIDs[i][j] THEN i
          ELSE identifyFrom(id, i + 1))
    ELSE -1

identifyItem(id) == identifyFrom(id, 0)

\* a variant of addItem that sends the frame before it counts the item
addItemSendFirst(index) ==
    /\ itemCounts' = [itemCounts EXCEPT ![index] = @ + 1]
    /\ totalPrice' = updateTotal(itemCounts')
    /\ lcd' = itemNames[index] \o <<" ">> \o FloatToStr(itemPrices[index])
                \o KrText
    /\ toESP' = Append(toESP, println(sendStatusToESP(itemCounts, totalPrice)))
    /\ UNCHANGED inRemoveMode

\* addItem
addItem(index) ==
    /\ itemCounts' = [itemCounts EXCEPT ![index] = @ + 1]
    /\ totalPrice' = updateTotal(itemCounts')
    /\ lcd' = itemNames[index] \o <<" ">> \o FloatToStr(itemPrices[index])
                \o KrText
    /\ toESP' = Append(toESP, println(sendStatusToESP(itemCounts', totalPrice')))
    /\ UNCHANGED inRemoveMode

\* a variant of removeItem without the test for a held item
removeItemUnchecked(index) ==
    /\ itemCounts' = [itemCounts EXCEPT ![index] = @ - 1]
    /\ totalPrice' = updateTotal(itemCounts')
    /\ lcd' = itemNames[index] \o <<" ">> \o RemovedText
    /\ toESP' = Append(toESP, println(sendStatusToESP(itemCounts', totalPrice')))
    /\ inRemoveMode' = FALSE

\* a variant of removeItem that leaves Remove mode only when it removed
removeItemKeepMode(index) ==
    IF itemCounts[index] > 0
    THEN /\ itemCounts' = [itemCounts EXCEPT ![index] = @ - 1]
         /\ totalPrice' = updateTotal(itemCounts')
         /\ lcd' = itemNames[index] \o <<" ">> \o RemovedText
         /\ toESP' = Append(toESP,
                       println(sendStatusToESP(itemCounts', totalPrice')))
         /\ inRemoveMode' = FALSE
    ELSE /\ lcd' = NotFoundText
         /\ UNCHANGED <<itemCounts, totalPrice, toESP, inRemoveMode>>

\* removeItem
removeItem(index) ==
    /\ IF itemCounts[index] > 0
       THEN /\ itemCounts' = [itemCounts EXCEPT ![index] = @ - 1]
            /\ totalPrice' = updateTotal(itemCounts')
            /\ lcd' = itemNames[index] \o <<" ">> \o RemovedText
            /\ toESP' = Append(toESP,
                          println(sendStatusToESP(itemCounts', totalPrice')))
       ELSE /\ lcd' = NotFoundText
            /\ UNCHANGED <<itemCounts, totalPrice, toESP>>
    /\ inRemoveMode' = FALSE

\* processCard
processCard(id) ==
    LET index == identifyItem(id)
    IN  IF index # -1
        THEN IF inRemoveMode THEN removeItem(index) ELSE addItem(index)
        ELSE /\ lcd' = UnknownText
             /\ UNCHANGED <<itemCounts, totalPrice, toESP, inRemoveMode>>

\* the clock reading after d more ms, as far as the program can tell
After(d) ==
    IF sincePressed + d > DwellMs THEN DwellMs + 1 ELSE sincePressed + d

\* a variant of checkButton without the dwell timeout
checkButtonNoTimeout(low) ==
    LET enter == low /\ ~inRemoveMode
    IN  /\ sincePressed' = IF enter THEN 0 ELSE sincePressed
        /\ inRemoveMode' = (enter \/ inRemoveMode)
        /\ lcd' = IF enter THEN RemoveText ELSE lcd

\* a variant of checkButton that takes every press as an entry into Remove
checkButtonRearm(low) ==
    LET pressedAt == IF low THEN 0 ELSE sincePressed
        inRemove == low \/ inRemoveMode
        expired == inRemove /\ pressedAt > DwellMs
    IN  /\ sincePressed' = pressedAt
        /\ inRemoveMode' = (inRemove /\ ~expired)
        /\ lcd' = IF expired THEN ReadyText
                  ELSE IF low THEN RemoveText ELSE lcd

\* checkButton, with the level read from the button pin
checkButton(low) ==
    LET enter == low /\ ~inRemoveMode
        pressedAt == IF enter THEN 0 ELSE sincePressed
        inRemove == enter \/ inRemoveMode
        expired == inRemove /\ pressedAt > DwellMs
    IN  /\ sincePressed' = pressedAt
        /\ inRemoveMode' = (inRemove /\ ~expired)
        /\ lcd' = IF expired THEN ReadyText
                  ELSE IF enter THEN RemoveText ELSE lcd

\* the number of items in the cart
RECURSIVE held(_, _)
held(counts, i) == IF i < numItems THEN counts[i] + held(counts, i + 1) ELSE 0

\* loop, first statement: checkButton()
ScannerCheckButton ==
    /\ pc = "button"
    /\ \E low \in BOOLEAN : checkButton(low)
    /\ pc' = "serial"
    /\ UNCHANGED <<itemCounts, totalPrice, budget>>
    /\ UNCHANGED <<serverVars, toESP, toATmega, card, submissions>>

\* a variant of the ESP_SERIAL.available() block that goes on reading while
\* a line waits
ScannerReadLineWhile ==
    /\ pc = "serial"
    /\ IF Len(toATmega) > 0
       THEN LET incomingData == trim(Head(toATmega))
            IN  /\ toATmega' = Tail(toATmega)
                /\ pc' = IF Len(toATmega') > 0 THEN "serial" ELSE "card"
                /\ IF startsWith(incomingData, BudgetPrefix)
                   THEN /\ budget' = toFloat(substring(incomingData, 7))
                        /\ UNCHANGED sincePressed
                   ELSE IF incomingData = NoBudget
                   THEN /\ sincePressed' = After(MelodyMs)
                        /\ UNCHANGED budget
                   ELSE UNCHANGED <<budget, sincePressed>>
       ELSE /\ pc' = "card"
            /\ UNCHANGED <<toATmega, budget, sincePressed>>
    /\ UNCHANGED <<itemCounts, totalPrice, inRemoveMode, lcd>>
    /\ UNCHANGED <<serverVars, toESP, card, submissions>>

\* a variant of the ESP_SERIAL.available() block that takes every line that
\* starts with "Budget" for a Budget frame
ScannerReadLineLoose ==
    /\ pc = "serial"
    /\ pc' = "card"
    /\ IF Len(toATmega) > 0
       THEN LET incomingData == trim(Head(toATmega))
            IN  /\ toATmega' = Tail(toATmega)
                /\ IF startsWith(incomingData, <<"B", "u", "d", "g", "e", "t">>)
                   THEN /\ budget' = toFloat(substring(incomingData, 7))
                        /\ UNCHANGED sincePressed
                   ELSE IF incomingData = NoBudget
                   THEN /\ sincePressed' = After(MelodyMs)
                        /\ UNCHANGED budget
                   ELSE UNCHANGED <<budget, sincePressed>>
       ELSE UNCHANGED <<toATmega, budget, sincePressed>>
    /\ UNCHANGED <<itemCounts, totalPrice, inRemoveMode, lcd>>
    /\ UNCHANGED <<serverVars, toESP, card, submissions>>

\* loop, the ESP_SERIAL.available() block: one line is read and trimmed
ScannerReadLine ==
    /\ pc = "serial"
    /\ pc' = "card"
    /\ IF Len(toATmega) > 0
       THEN LET incomingData == trim(Head(toATmega))
            IN  /\ toATmega' = Tail(toATmega)
                /\ IF startsWith(incomingData, BudgetPrefix)
                   THEN /\ budget' = toFloat(substring(incomingData, 7))
                        /\ UNCHANGED sincePressed
                   ELSE IF incomingData = LowBudget
                   THEN UNCHANGED <<budget, sincePressed>>
                   ELSE IF incomingData = NoBudget
                   THEN /\ sincePressed' = After(MelodyMs)
                        /\ UNCHANGED budget
                   ELSE UNCHANGED <<budget, sincePressed>>
       ELSE UNCHANGED <<toATmega, budget, sincePressed>>
    /\ UNCHANGED <<itemCounts, totalPrice, inRemoveMode, lcd>>
    /\ UNCHANGED <<serverVars, toESP, card, submissions>>

\* loop, the reader poll: no card is present
ScannerNoCard ==
    /\ pc = "card"
    /\ pc' = "button"
    /\ UNCHANGED <<itemCounts, totalPrice, budget, inRemoveMode,
                   sincePressed, lcd>>
    /\ UNCHANGED <<serverVars, toESP, toATmega, card, submissions>>

\* loop, the reader poll: a card is present, its uid is read and processed.
\* The server polls Serial all through the scanner's delay(2000), so the
\* frame of one scan has been read before the next scan can send another.
ScannerScan ==
    /\ pc = "card"
    /\ toESP = <<>>
    /\ \E id \in Tags :
          /\ (identifyItem(id) # -1 /\ ~inRemoveMode)
                => held(itemCounts, 0) < MaxItems
          /\ card' = id
          /\ processCard(id)
    /\ pc' = "delay"
    /\ UNCHANGED <<budget, sincePressed>>
    /\ UNCHANGED <<serverVars, toATmega, submissions>>

\* loop, after processCard: delay(2000) and showReadyScreen()
ScannerShowReady ==
    /\ pc = "delay"
    /\ sincePressed' = After(ScanDelayMs)
    /\ lcd' = ReadyText
    /\ pc' = "button"
    /\ card' = NoCard
    /\ UNCHANGED <<itemCounts, totalPrice, budget, inRemoveMode>>
    /\ UNCHANGED <<serverVars, toESP, toATmega, submissions>>

\* time passes between two iterations of the loop
Tick ==
    /\ pc = "button"
    /\ sincePressed <= DwellMs
    /\ sincePressed' = After(TickMs)
    /\ UNCHANGED <<itemCounts, totalPrice, budget, inRemoveMode,
                   lcd, pc>>
    /\ UNCHANGED <<serverVars, toESP, toATmega, card, submissions>>

(***************************************************************************)
(* Server node.                                                            *)
(***************************************************************************)
\* a float that may be the quotient of a division by zero: a ratio n/d with
\* d > 0, or one of the IEEE-754 specials
Ratio(n, d) == [kind |-> "num", n |-> n, d |-> d]
NaN == [kind |-> "nan", n |-> 0, d |-> 1]
PosInf == [kind |-> "inf", n |-> 1, d |-> 1]
NegInf == [kind |-> "inf", n |-> -1, d |-> 1]

\* a / b
fdiv(a, b) ==
    IF b = 0
    THEN (IF a = 0 THEN NaN ELSE IF a > 0 THEN PosInf ELSE NegInf)
    ELSE IF b > 0 THEN Ratio(a, b) ELSE Ratio(-a, -b)

\* x * k, k > 0
fscale(x, k) == IF x.kind = "num" THEN Ratio(x.n * k, x.d) ELSE x

\* x <= k and x > k; every comparison with NaN is false
fle(x, k) ==
    \/ x.kind = "num" /\ x.n <= k * x.d
    \/ x.kind = "inf" /\ x.n < 0
fgt(x, k) ==
    \/ x.kind = "num" /\ x.n > k * x.d
    \/ x.kind = "inf" /\ x.n > 0

\* Print::println(float): nan, inf, or the value rounded to two decimals
printFloat(x) ==
    IF x.kind = "nan" THEN <<"n", "a", "n">>
    ELSE IF x.kind = "inf" THEN <<"i", "n", "f">>
    ELSE LET mag == IF x.n < 0 THEN -x.n ELSE x.n
             h == (mag * 200 + x.d) \div (2 * x.d)
         IN  FloatToStr(IF x.n < 0 THEN -h ELSE h)

\* extractTotalAmount
extractTotalAmount(data) ==
    LET totalPos == lastIndexOf(data, TotalMarker)
    IN  IF totalPos # -1 THEN toFloat(substring(data, totalPos + 6)) ELSE 0

\* handleItemUpdates: the percentage of the budget that remains
budgetPercentage(remaining, total) == fscale(fdiv(remaining, total), 100)

\* a variant of the threshold test that leaves the 20% boundary out
thresholdLinesStrict(percentage) ==
    IF /\ fle(percentage, 20)
       /\ ~(percentage.kind = "num" /\ percentage.n = 20 * percentage.d)
       /\ fgt(percentage, 0)
    THEN <<println(LowBudget)>>
    ELSE IF fle(percentage, 0) THEN <<println(NoBudget)>>
    ELSE <<>>

\* a variant of the threshold test that warns from 25% down
thresholdLinesQuarter(percentage) ==
    IF fle(percentage, 25) /\ fgt(percentage, 0) THEN <<println(LowBudget)>>
    ELSE IF fle(percentage, 0) THEN <<println(NoBudget)>>
    ELSE <<>>

\* handleItemUpdates: the threshold token sent for a percentage, if any
thresholdLines(percentage) ==
    IF fle(percentage, 20) /\ fgt(percentage, 0) THEN <<println(LowBudget)>>
    ELSE IF fle(percentage, 0) THEN <<println(NoBudget)>>
    ELSE <<>>

\* a variant of handleItemUpdates whose two threshold tests are independent
\* ifs, the first without its lower bound
handleItemUpdatesTwoIfs(data) ==
    LET totalScannedAmount == extractTotalAmount(data)
        remaining == totalBudget - totalScannedAmount
        percentage == budgetPercentage(remaining, totalBudget)
    IN  /\ remainingBudget' = remaining
        /\ toATmega' = toATmega
              \o <<println(BudgetLabel \o FloatToStr(remaining))>>
              \o <<println(PercentageLabel \o printFloat(percentage))>>
              \o (IF fle(percentage, 20) THEN <<println(LowBudget)>> ELSE <<>>)
              \o (IF fle(percentage, 0) THEN <<println(NoBudget)>> ELSE <<>>)

\* a variant of handleItemUpdates that takes the total of the frame off what
\* remained before, not off the budget
handleItemUpdatesIncremental(data) ==
    LET totalScannedAmount == extractTotalAmount(data)
    IN  /\ remainingBudget' = remainingBudget - totalScannedAmount
        /\ toATmega' = toATmega
              \o <<println(BudgetLabel \o FloatToStr(remainingBudget'))>>
              \o <<println(PercentageLabel \o printFloat(
                      budgetPercentage(remainingBudget', totalBudget)))>>
              \o thresholdLines(budgetPercentage(remainingBudget', totalBudget))

\* a variant of handleItemUpdates that sends a threshold token only when it
\* differs from the one the remaining budget stood for before
handleItemUpdatesDebounced(data) ==
    LET totalScannedAmount == extractTotalAmount(data)
        before == thresholdLines(budgetPercentage(remainingBudget, totalBudget))
    IN  /\ remainingBudget' = totalBudget - totalScannedAmount
        /\ toATmega' = toATmega
              \o <<println(BudgetLabel \o FloatToStr(remainingBudget'))>>
              \o <<println(PercentageLabel \o printFloat(
                      budgetPercentage(remainingBudget', totalBudget)))>>
              \o (IF thresholdLines(budgetPercentage(remainingBudget',
                                                    totalBudget)) = before
                  THEN <<>>
                  ELSE thresholdLines(budgetPercentage(remainingBudget',
                                                       totalBudget)))

\* handleItemUpdates
handleItemUpdates(data) ==
    LET totalScannedAmount == extractTotalAmount(data)
    IN  /\ remainingBudget' = totalBudget - totalScannedAmount
        /\ toATmega' = toATmega
              \o <<println(BudgetLabel \o FloatToStr(remainingBudget'))>>
              \o <<println(PercentageLabel \o printFloat(
                      budgetPercentage(remainingBudget', totalBudget)))>>
              \o thresholdLines(budgetPercentage(remainingBudget', totalBudget))

\* a variant of getItemPrice with another price for Butter
getItemPriceStale(itemName) ==
    IF itemName = <<"M", "i", "l", "k">> THEN 700
    ELSE IF itemName = <<"E", "g", "g">> THEN 2500
    ELSE IF itemName = <<"B", "u", "t", "t", "e", "r">> THEN 1900
    ELSE IF itemName = <<"C", "h", "o", "c", "o", "l", "a", "t", "e">> THEN 2000
    ELSE 0

\* a variant of getItemPrice that prices a name it does not know as Milk
getItemPriceFallback(itemName) ==
    IF itemName = <<"E", "g", "g">> THEN 2500
    ELSE IF itemName = <<"B", "u", "t", "t", "e", "r">> THEN 1800
    ELSE IF itemName = <<"C", "h", "o", "c", "o", "l", "a", "t", "e">> THEN 2000
    ELSE 700

\* getItemPrice, in hundredths
getItemPrice(itemName) ==
    IF itemName = <<"M", "i", "l", "k">> THEN 700
    ELSE IF itemName = <<"E", "g", "g">> THEN 2500
    ELSE IF itemName = <<"B", "u", "t", "t", "e", "r">> THEN 1800
    ELSE IF itemName = <<"C", "h", "o", "c", "o", "l", "a", "t", "e">> THEN 2000
    ELSE 0

\* a variant of processLine that takes the quantity from the comma on
processLineFromComma(rows, line) ==
    LET commaPos == indexOf(line, <<",">>)
        itemName == substring2(line, 0, commaPos)
        itemQuantity == substring(line, commaPos)
        unitPrice == getItemPrice(itemName)
    IN  IF commaPos # -1
        THEN Append(rows, [itemName |-> itemName,
                           unitPrice |-> unitPrice,
                           itemQuantity |-> itemQuantity,
                           itemTotalPrice |-> unitPrice * toInt(itemQuantity)])
        ELSE rows

\* processLine: the table row of one name,quantity pair, if it is one
processLine(rows, line) ==
    LET commaPos == indexOf(line, <<",">>)
        itemName == substring2(line, 0, commaPos)
        itemQuantity == substring(line, commaPos + 1)
        unitPrice == getItemPrice(itemName)
    IN  IF commaPos # -1
        THEN Append(rows, [itemName |-> itemName,
                           unitPrice |-> unitPrice,
                           itemQuantity |-> itemQuantity,
                           itemTotalPrice |-> unitPrice * toInt(itemQuantity)])
        ELSE rows

\* formatItemLines: the loop over the pairs that end in ';', then the rest
RECURSIVE formatLoop(_, _, _, _)
formatLoop(itemsData, start, sepPos, rows) ==
    IF start < Len(itemsData) /\ sepPos # -1
    THEN formatLoop(itemsData, sepPos + 1,
                    indexOfFrom(itemsData, <<";">>, sepPos + 1),
                    processLine(rows, substring2(itemsData, start, sepPos)))
    ELSE IF start < Len(itemsData)
    THEN processLine(rows, substring(itemsData, start))
    ELSE rows

\* formatItemLines: the rows of the table, the total text and the remaining
\* budget shown (the markup and the timestamp are left out)
formatItemLines(data) ==
    LET updatePos == indexOf(data, UpdatePrefix)
        cleanData == IF updatePos # -1
                     THEN substring(data, updatePos + Len(UpdatePrefix))
                     ELSE data
        lastCommaPos == lastIndexOf(cleanData, <<",">>)
        itemsData == substring2(cleanData, 0, lastCommaPos)
        totalAmount == substring(cleanData, lastCommaPos + 1)
    IN  [rows |-> formatLoop(itemsData, 0, indexOf(itemsData, <<";">>), <<>>),
         totalAmount |-> totalAmount,
         remaining |-> FloatToStr(remainingBudget)]

\* the amounts typed into the budget form
BudgetInputs == {<<"0">>, <<"4", "0">>, <<"1", "0", "0">>}

\* loop: a line is available on Serial
ServerReadLine ==
    /\ Len(toESP) > 0
    /\ Len(toATmega) + 3 <= MaxToATmega
    /\ currentData' = Head(toESP)
    /\ toESP' = Tail(toESP)
    /\ IF startsWith(currentData', UpdatePrefix)
       THEN handleItemUpdates(substring(currentData', 7))
       ELSE UNCHANGED <<remainingBudget, toATmega>>
    /\ UNCHANGED <<totalBudget, page, card, submissions>>
    /\ UNCHANGED scannerVars

\* a variant of the /submit_budget handler that takes the total of the last
\* frame off the new budget
ServerSubmitBudgetLessCart ==
    /\ submissions < MaxSubmissions
    /\ submissions' = submissions + 1
    /\ Len(toATmega) + 1 <= MaxToATmega
    /\ \E arg \in BudgetInputs :
          /\ totalBudget' = toFloat(arg)
          /\ remainingBudget' = totalBudget' - extractTotalAmount(currentData)
          /\ toATmega' = Append(toATmega,
                           println(BudgetLabel \o FloatToStr(remainingBudget')))
    /\ UNCHANGED <<currentData, page>>
    /\ UNCHANGED <<scannerVars, toESP, card>>

\* the /submit_budget handler
ServerSubmitBudget ==
    /\ submissions < MaxSubmissions
    /\ submissions' = submissions + 1
    /\ Len(toATmega) + 1 <= MaxToATmega
    /\ \E arg \in BudgetInputs :
          /\ totalBudget' = toFloat(arg)
          /\ remainingBudget' = totalBudget'
          /\ toATmega' = Append(toATmega,
                           println(BudgetLabel \o FloatToStr(remainingBudget')))
    /\ UNCHANGED <<currentData, page>>
    /\ UNCHANGED <<scannerVars, toESP, card>>

\* the /data handler
ServerData ==
    /\ page' = formatItemLines(currentData)
    /\ UNCHANGED <<totalBudget, remainingBudget, currentData>>
    /\ UNCHANGED <<scannerVars, toESP, toATmega, card, submissions>>

(***************************************************************************)
(* The system.                                                             *)
(***************************************************************************)
Init ==
    /\ itemCounts = [i \in 0..3 |-> 0]
    /\ totalPrice = 0
    /\ budget = 0
    /\ inRemoveMode = FALSE
    /\ sincePressed = 0
    /\ lcd = ReadyText
    /\ pc = "button"
    /\ totalBudget = 0
    /\ remainingBudget = 0
    /\ currentData = <<>>
    /\ page = [rows |-> <<>>, totalAmount |-> <<>>, remaining |-> FloatToStr(0)]
    /\ toESP = <<>>
    /\ toATmega = <<>>
    /\ card = NoCard
    /\ submissions = 0
    /\ handled = <<>>
    /\ lastScanned = NoCard
    /\ latest = "none"
    /\ lost = 0

Next ==
    \/ ScannerCheckButton /\ UNCHANGED history
    \/ ScannerReadLine /\ UNCHANGED history
    \/ ScannerNoCard /\ UNCHANGED history
    \/ ScannerScan /\ UNCHANGED history
    \/ ScannerShowReady /\ UNCHANGED history
    \/ Tick /\ UNCHANGED history
    \/ ServerReadLine /\ UNCHANGED history
    \/ ServerSubmitBudget /\ UNCHANGED history

Spec == Init /\ [][Next]_vars

(***************************************************************************)
(* The system with its scheduling.  The scanner's loop() is called again   *)
(* and again by the Arduino core, and each of its statements returns, so   *)
(* the step at every position of the loop is taken (the reader poll        *)
(* returns "no card" unless a shopper presents one).  millis() is driven   *)
(* by a timer interrupt and every iteration of the loop takes time (the    *)
(* reader poll alone is several SPI transactions), so the loop cannot go   *)
(* round for ever without time passing: Tick, which is enabled only        *)
(* between two iterations, is taken again and again.  Nothing obliges the  *)
(* shopper to press the button or present a tag, and nothing is assumed of *)
(* the server.  The budget form has been submitted before the shopping     *)
(* starts and its Budget line is on its way to the scanner.                *)
(***************************************************************************)
\* WF_vars(ScannerReadLine) written out: the step is enabled exactly when the
\* loop is at the serial block, whatever line waits there
ScannerReadLineFair ==
    []<>(pc # "serial") \/ []<><<ScannerReadLine>>_vars

Fairness ==
    /\ WF_vars(ScannerCheckButton /\ UNCHANGED history)
    /\ ScannerReadLineFair
    /\ WF_vars(ScannerNoCard /\ UNCHANGED history)
    /\ WF_vars(ScannerShowReady /\ UNCHANGED history)
    /\ SF_vars(Tick /\ UNCHANGED history)

ShoppingInit ==
    /\ itemCounts = [i \in 0..3 |-> 0]
    /\ totalPrice = 0
    /\ budget = 0
    /\ inRemoveMode = FALSE
    /\ sincePressed = 0
    /\ lcd = ReadyText
    /\ pc = "button"
    /\ totalBudget \in {toFloat(arg) : arg \in BudgetInputs}
    /\ remainingBudget = totalBudget
    /\ currentData = <<>>
    /\ page = [rows |-> <<>>, totalAmount |-> <<>>, remaining |-> FloatToStr(0)]
    /\ toESP = <<>>
    /\ toATmega = <<println(BudgetLabel \o FloatToStr(remainingBudget))>>
    /\ card = NoCard
    /\ submissions = 1
    /\ handled = <<>>
    /\ lastScanned = NoCard
    /\ latest = "none"
    /\ lost = 0

ShoppingNext ==
    \/ ScannerCheckButton /\ UNCHANGED history
    \/ ScannerReadLine /\ UNCHANGED history
    \/ ScannerNoCard /\ UNCHANGED history
    \/ ScannerScan /\ UNCHANGED history
    \/ ScannerShowReady /\ UNCHANGED history
    \/ Tick /\ UNCHANGED history
    \/ ServerReadLine /\ UNCHANGED history

FairSpec == ShoppingInit /\ [][ShoppingNext]_vars /\ Fairness

(***************************************************************************)
(* The shopping session with the scanner's loop observed: every step of    *)
(* the loop records the event it handles, if any.  checkButton handles a   *)
(* trigger event when it changes the mode (an entry into Remove or the     *)
(* dwell timeout; a press in Remove mode is ignored); the serial block     *)
(* handles a frame when a line waits; the reader poll handles a scan when  *)
(* a tag is present.                                                       *)
(***************************************************************************)
LoopCheckButton ==
    /\ ScannerCheckButton
    /\ handled' = IF inRemoveMode' # inRemoveMode THEN <<"trigger">> ELSE <<>>
    /\ UNCHANGED <<lastScanned, link>>

LoopReadLine ==
    /\ ScannerReadLine
    /\ handled' = IF Len(toATmega) > 0 THEN Append(handled, "frame")
                  ELSE handled
    /\ UNCHANGED <<lastScanned, link>>

LoopNoCard ==
    /\ ScannerNoCard
    /\ handled' = <<>>
    /\ UNCHANGED <<lastScanned, link>>

LoopScan ==
    /\ ScannerScan
    /\ handled' = Append(handled, "scan")
    /\ UNCHANGED <<lastScanned, link>>

LoopShowReady ==
    /\ ScannerShowReady
    /\ handled' = <<>>
    /\ lastScanned' = IF identifyItem(card) # -1 THEN card ELSE lastScanned
    /\ UNCHANGED link

LoopNext ==
    \/ LoopCheckButton
    \/ LoopReadLine
    \/ LoopNoCard
    \/ LoopScan
    \/ LoopShowReady
    \/ Tick /\ UNCHANGED history
    \/ ServerReadLine /\ UNCHANGED history

LoopSpec == ShoppingInit /\ [][LoopNext]_vars

(***************************************************************************)
(* The shopping session over a link that loses lines.  The scanner writes  *)
(* its Update frames to a UART with no handshake and waits for no          *)
(* acknowledgment; the server's loop() serves the web clients before it    *)
(* looks at Serial, so a frame that arrives while it is busy can overflow  *)
(* the receive buffer and is gone.  A lost frame is lost whole here.  The   *)
(* dwell time of the Remove mode plays no part on the link and the clock   *)
(* advances only with the scanner's own delays.                            *)
(***************************************************************************)
\* the most frames the link loses
MaxLost == 2

\* a frame in flight to the server is lost
LinkLoseFrame ==
    /\ Len(toESP) > 0
    /\ lost < MaxLost
    /\ toESP' = Tail(toESP)
    /\ latest' = "lost"
    /\ lost' = lost + 1
    /\ UNCHANGED <<scannerVars, serverVars, toATmega, card, submissions>>
    /\ UNCHANGED <<handled, lastScanned>>

LossyScan ==
    /\ ScannerScan
    /\ latest' = IF toESP' # toESP THEN "sent" ELSE latest
    /\ UNCHANGED <<handled, lastScanned, lost>>

LossyReadLine ==
    /\ ServerReadLine
    /\ latest' = "read"
    /\ UNCHANGED <<handled, lastScanned, lost>>

LossyNext ==
    \/ ScannerCheckButton /\ UNCHANGED history
    \/ ScannerReadLine /\ UNCHANGED history
    \/ ScannerNoCard /\ UNCHANGED history
    \/ LossyScan
    \/ ScannerShowReady /\ UNCHANGED history
    \/ LossyReadLine
    \/ LinkLoseFrame

LossySpec == ShoppingInit /\ [][LossyNext]_vars

(***************************************************************************)
(* The codec and the classifier on their own: any ledger snapshot the      *)
(* scanner can hold and any budget the form can set, then the frame is     *)
(* sent, read by the server and shown by the /data handler.                *)
(***************************************************************************)
Quantities == 0..MaxQuantity

SnapshotInit ==
    /\ itemCounts \in [0..3 -> Quantities]
    /\ totalPrice = updateTotal(itemCounts)
    /\ budget = 0
    /\ inRemoveMode = FALSE
    /\ sincePressed = 0
    /\ lcd = ReadyText
    /\ pc = "button"
    /\ totalBudget \in {toFloat(arg) : arg \in BudgetInputs}
    /\ remainingBudget = totalBudget
    /\ currentData = <<>>
    /\ page = [rows |-> <<>>, totalAmount |-> <<>>, remaining |-> FloatToStr(0)]
    /\ toESP = <<>>
    /\ toATmega = <<>>
    /\ card = NoCard
    /\ submissions = 0
    /\ handled = <<>>
    /\ lastScanned = NoCard
    /\ latest = "none"
    /\ lost = 0

\* sendStatusToESP() as addItem and removeItem call it, on the snapshot
SnapshotSend ==
    /\ toESP = <<>>
    /\ currentData = <<>>
    /\ toESP' = <<println(sendStatusToESP(itemCounts, totalPrice))>>
    /\ UNCHANGED <<scannerVars, serverVars, toATmega, card, submissions>>

SnapshotNext ==
    \/ SnapshotSend /\ UNCHANGED history
    \/ ServerReadLine /\ UNCHANGED history
    \/ ServerData /\ UNCHANGED history

SnapshotSpec == SnapshotInit /\ [][SnapshotNext]_vars

(***************************************************************************)
(* The decoder on its own: a line arrives on the server's Serial from any  *)
(* sender, well formed or not: up to two name,quantity; pairs, of catalog  *)
(* names or of a name the catalog does not hold, then Total,<amount> or    *)
(* nothing.  The server reads it and the /data handler shows it.           *)
(***************************************************************************)
TestNames == {itemNames[0], itemNames[1], <<"T", "e", "a">>}

TestPairs ==
    {n \o <<",">> \o IntToStr(q) \o <<";">> :
        n \in TestNames, q \in 1..MaxQuantity}

TestItems == {<<>>} \cup TestPairs \cup {a \o b : a \in TestPairs, b \in TestPairs}

TestTotals == {<<>>, TotalMarker \o FloatToStr(700), TotalMarker \o FloatToStr(5700)}

TestFrames == {UpdatePrefix \o items \o total :
                  items \in TestItems, total \in TestTotals}

DecodeInit ==
    /\ itemCounts = [i \in 0..3 |-> 0]
    /\ totalPrice = 0
    /\ budget = 0
    /\ inRemoveMode = FALSE
    /\ sincePressed = 0
    /\ lcd = ReadyText
    /\ pc = "button"
    /\ totalBudget \in {toFloat(arg) : arg \in BudgetInputs}
    /\ remainingBudget = totalBudget
    /\ currentData = <<>>
    /\ page = [rows |-> <<>>, totalAmount |-> <<>>, remaining |-> FloatToStr(0)]
    /\ toESP \in {<<println(frame)>> : frame \in TestFrames}
    /\ toATmega = <<>>
    /\ card = NoCard
    /\ submissions = 0
    /\ handled = <<>>
    /\ lastScanned = NoCard
    /\ latest = "none"
    /\ lost = 0

DecodeNext ==
    \/ ServerReadLine /\ UNCHANGED history
    \/ ServerData /\ UNCHANGED history

DecodeSpec == DecodeInit /\ [][DecodeNext]_vars

(***************************************************************************)
(* The budget form on its own: any ledger snapshot and any budget set      *)
(* earlier; the frame of the ledger is sent and read, and the form is      *)
(* submitted again, before or after.                                       *)
(***************************************************************************)
BudgetNext ==
    \/ SnapshotSend /\ UNCHANGED history
    \/ ServerReadLine /\ UNCHANGED history
    \/ ServerSubmitBudget /\ UNCHANGED history

BudgetSpec == SnapshotInit /\ [][BudgetNext]_vars

(***************************************************************************)
(* Properties of the ledger (Spec).                                        *)
(***************************************************************************)
\* the step in which the scanner handles the scan of a tag
ScanStep == pc = "card" /\ pc' = "delay"

\* the scanned tag is a catalog item
Recognized(id) == \E i \in 0..3 : id = itemUIDs[i]

\* the catalog index of a recognized tag
ItemOf(id) == CHOOSE i \in 0..3 : id = itemUIDs[i]

\* the step handles a remove-scan of a recognized item of which none is held
EmptyRemovalStep ==
    /\ ScanStep
    /\ inRemoveMode
    /\ Recognized(card')
    /\ itemCounts[ItemOf(card')] = 0

\* C1: in every reachable state the stored cart total is the sum over the
\* catalog of held quantity x unit price.
C1_TotalIsWeightedSum ==
    totalPrice = itemCounts[0] * 700 + itemCounts[1] * 2500
                 + itemCounts[2] * 1800 + itemCounts[3] * 2000

\* C1 witness: a Milk has just been removed from a cart that still holds two
\* Eggs, after adds and a removal.
C1_Witness ==
    /\ pc = "delay"
    /\ lcd = itemNames[0] \o <<" ">> \o RemovedText
    /\ itemCounts[1] = 2
    /\ totalPrice = 5000

\* C2: in every reachable state every held quantity is >= 0.
C2_QuantitiesNonNegative == \A i \in 0..3 : itemCounts[i] >= 0

\* C2 witness: a remove-scan has just been refused for an item held 0 times.
C2_Witness ==
    /\ pc = "delay"
    /\ lcd = NotFoundText
    /\ Recognized(card)
    /\ itemCounts[ItemOf(card)] = 0

\* C3: a remove-scan of a recognized item whose held quantity is 0 leaves
\* every quantity and the cart total as they were.
C3_EmptyRemovalIsNoOp ==
    [][EmptyRemovalStep => UNCHANGED <<itemCounts, totalPrice>>]_vars

\* C3 witness: an empty removal has been handled while the cart holds other
\* items.
C3_Witness ==
    /\ pc = "delay"
    /\ lcd = NotFoundText
    /\ card = itemUIDs[3]
    /\ itemCounts[3] = 0
    /\ itemCounts[1] > 0
    /\ totalPrice > 0

\* the scan step applies: an add, or a remove of a held item
ApplyStep ==
    /\ ScanStep
    /\ Recognized(card')
    /\ inRemoveMode => itemCounts[ItemOf(card')] > 0

\* C4: the scanner sends an Update frame exactly when an apply succeeds; the
\* frame carries the whole ledger as it is after the mutation; an empty
\* removal, an unrecognized tag and every other step send nothing.
C4_FrameExactlyOnApply ==
    [][IF ApplyStep
       THEN /\ itemCounts' =
                 [itemCounts EXCEPT ![ItemOf(card')] =
                     IF inRemoveMode THEN @ - 1 ELSE @ + 1]
            /\ toESP' = Append(toESP,
                 println(sendStatusToESP(itemCounts', totalPrice')))
       ELSE toESP' = toESP \/ (toESP # <<>> /\ toESP' = Tail(toESP))]_vars

\* C4 witness: the frame of a successful removal is in flight and lists the
\* ledger after the removal.
C4_Witness ==
    /\ pc = "delay"
    /\ lcd = itemNames[1] \o <<" ">> \o RemovedText
    /\ itemCounts[1] = 1
    /\ toESP = <<println(sendStatusToESP(itemCounts, totalPrice))>>

\* C10: a scan of a recognized item handled in Remove mode leaves the mode
\* Add, whether it removed or not; a scan of a recognized item handled in Add
\* mode adds.
C10_RemoveModeConsumed ==
    [][(ScanStep /\ Recognized(card'))
         => /\ ~inRemoveMode'
            /\ ~inRemoveMode =>
                 itemCounts'[ItemOf(card')] = itemCounts[ItemOf(card')] + 1]_vars

\* C10 witness: an empty removal has been handled and the mode is Add.
C10_Witness ==
    /\ pc = "delay"
    /\ lcd = NotFoundText
    /\ Recognized(card)
    /\ ~inRemoveMode

(***************************************************************************)
(* Properties of the mode (Spec, FairSpec).                                *)
(***************************************************************************)
\* C11: when the mode is Remove it eventually becomes Add again with no
\* further press of the button and whether or not a tag is presented: while
\* the loop keeps polling and time passes, checkButton finds the dwell time
\* of 5000 ms since the entry into Remove elapsed and leaves the mode.
C11_RemoveModeEnds == inRemoveMode ~> ~inRemoveMode

\* C11 witness: the mode is Remove, the display still shows the text of the
\* entry (no scan was handled since), the dwell time has elapsed and the loop
\* is at checkButton, the only step the scanner can take.
C11_Witness ==
    /\ inRemoveMode
    /\ lcd = RemoveText
    /\ sincePressed > DwellMs
    /\ pc = "button"

\* the step in which the scanner runs checkButton
ButtonStep == pc = "button" /\ pc' = "serial"

\* C12: the mode starts as Add; it becomes Remove only in checkButton, from
\* Add, with the entry time taken then; checkButton run in Remove mode, with
\* the button pressed or not, keeps the entry time and leaves the mode only
\* by the timeout; and no step in Remove mode moves the entry time, so the
\* time since the entry never goes back.
C12_EntryOnlyFromAdd ==
    /\ ~inRemoveMode
    /\ [][/\ (~inRemoveMode /\ inRemoveMode')
               => (ButtonStep /\ sincePressed' = 0 /\ lcd' = RemoveText)
          /\ (inRemoveMode /\ ButtonStep)
               => /\ sincePressed' = sincePressed
                  /\ inRemoveMode' = (sincePressed <= DwellMs)
          /\ inRemoveMode => sincePressed' >= sincePressed]_vars

\* C12 witness: checkButton has run in Remove mode some time after the entry
\* and within the dwell time: the mode and the entry time are kept.
C12_Witness ==
    /\ pc = "serial"
    /\ inRemoveMode
    /\ sincePressed > 0
    /\ sincePressed <= DwellMs

(***************************************************************************)
(* Properties of the codec and of the classifier.                          *)
(***************************************************************************)
\* the catalog indices of the held items, in catalog order
HeldItems == SelectSeq(<<0, 1, 2, 3>>, LAMBDA i : itemCounts[i] > 0)

\* the pieces of a text between the occurrences of a separator character
RECURSIVE SplitAt(_, _)
SplitAt(s, sep) ==
    IF \E k \in 1..Len(s) : s[k] = sep
    THEN LET k == CHOOSE k \in 1..Len(s) :
                     s[k] = sep /\ \A j \in 1..(k - 1) : s[j] # sep
         IN  <<SubSeq(s, 1, k - 1)>> \o SplitAt(SubSeq(s, k + 1, Len(s)), sep)
    ELSE <<s>>

\* a line is the Update frame of the ledger: the prefix, then one piece
\* name,qty per held item in catalog order, each ended by ';', then the piece
\* Total,<total> with nothing but the line end after it
IsLedgerFrame(line) ==
    /\ Len(line) > Len(UpdatePrefix)
    /\ SubSeq(line, 1, Len(UpdatePrefix)) = UpdatePrefix
    /\ line[Len(line)] = "\r"
    /\ LET pieces == SplitAt(SubSeq(line, Len(UpdatePrefix) + 1,
                                    Len(line) - 1), ";")
       IN  /\ Len(pieces) = Len(HeldItems) + 1
           /\ \A j \in 1..Len(HeldItems) :
                 pieces[j] = itemNames[HeldItems[j]] \o <<",">>
                             \o IntToStr(itemCounts[HeldItems[j]])
           /\ pieces[Len(pieces)] = TotalMarker \o FloatToStr(totalPrice)

\* C5: the encoded Update frame lists exactly the items with quantity > 0,
\* in catalog order, each as name,qty followed by ';', and ends with
\* Total,<total>, the only element with no delimiter after it.
C5_FrameLayout == \A k \in 1..Len(toESP) : IsLedgerFrame(toESP[k])

\* C5 witness: the frame of a ledger that holds Egg and Chocolate, but no
\* Milk and no Butter, is in flight.
C5_Witness ==
    /\ Len(toESP) = 1
    /\ itemCounts = [i \in 0..3 |-> IF i = 1 THEN 2 ELSE IF i = 3 THEN 1 ELSE 0]

\* the server has read the frame of the ledger
FrameRead == currentData # <<>>

\* the /data handler has decoded the frame of the ledger
FrameShown == page.totalAmount # <<>>

\* C6: the frame the scanner encodes, decoded by the server, gives the same
\* (name, quantity) pairs for the held items and the same total.
C6_RoundTrip ==
    /\ FrameShown =>
          /\ {<<page.rows[k].itemName, toInt(page.rows[k].itemQuantity)>> :
                 k \in 1..Len(page.rows)}
               = {<<itemNames[i], itemCounts[i]>> :
                     i \in {j \in 0..3 : itemCounts[j] > 0}}
          /\ Len(page.rows) = Len(HeldItems)
          /\ toFloat(page.totalAmount) = totalPrice
    /\ FrameRead => totalBudget - remainingBudget = totalPrice

\* C6 witness: a frame with three pairs has been decoded for the web view.
C6_Witness ==
    /\ FrameShown
    /\ Len(page.rows) = 3
    /\ itemCounts[0] = 0
    /\ itemCounts[3] = 3

\* the threshold tokens among the lines sent to the scanner
LowSent == \E k \in 1..Len(toATmega) : toATmega[k] = println(LowBudget)
NoSent == \E k \in 1..Len(toATmega) : toATmega[k] = println(NoBudget)

\* C7: for a budget > 0 the update is answered with LowBudget exactly when
\* 0 < remaining/budget*100 <= 20, with NoBudget exactly when
\* remaining/budget*100 <= 0, and with no token otherwise; (50,100) is
\* Normal, (15,100) is Low, (0,100) is Exhausted.
C7_Thresholds ==
    (FrameRead /\ totalBudget > 0) =>
       /\ LowSent <=> (0 < remainingBudget * 100
                       /\ remainingBudget * 100 <= 20 * totalBudget)
       /\ NoSent <=> remainingBudget * 100 <= 0
       /\ (totalBudget = 10000 /\ remainingBudget = 5000)
             => (~LowSent /\ ~NoSent)
       /\ (totalBudget = 10000 /\ remainingBudget = 1500)
             => (LowSent /\ ~NoSent)
       /\ (totalBudget = 10000 /\ remainingBudget = 0)
             => (~LowSent /\ NoSent)

\* C7 witness: remaining 15.00 of a budget of 100.00 has been answered with
\* LowBudget.
C7_Witness ==
    /\ FrameRead
    /\ totalBudget = 10000
    /\ remainingBudget = 1500
    /\ LowSent

\* the step in which the server reads a line from the scanner
ServerReadStep == toESP # <<>> /\ toESP' = Tail(toESP)

\* the lines the server sends in a step
Sent == SubSeq(toATmega', Len(toATmega) + 1, Len(toATmega'))

\* C8: with a budget of zero, or none set, a ledger update is answered with
\* neither LowBudget nor NoBudget.
C8_NoTokenWithoutBudget ==
    [][(ServerReadStep /\ totalBudget <= 0)
         => \A k \in 1..Len(Sent) :
               Sent[k] # println(LowBudget) /\ Sent[k] # println(NoBudget)]_vars

\* the frame of a cart that holds three Eggs
ThreeEggsFrame ==
    <<"U", "p", "d", "a", "t", "e", ":", "E", "g", "g", ",", "3", ";",
      "T", "o", "t", "a", "l", ",", "7", "5", ".", "0", "0", "\r">>

\* the server reads the frame of three Eggs under a budget of 100.00
ThreeEggsStep ==
    /\ ServerReadStep
    /\ Head(toESP) = ThreeEggsFrame
    /\ totalBudget = 10000

\* three Eggs in an otherwise empty cart cost 75.00 and are reported so
ThreeEggsTotal ==
    (itemCounts = [i \in 0..3 |-> IF i = 1 THEN 3 ELSE 0])
       => /\ totalPrice = 7500
          /\ \A k \in 1..Len(toESP) : toESP[k] = ThreeEggsFrame

\* C9 as stated: with the budget at 100, three adds of the item priced 25
\* give total 75 and remaining 25, and LowBudget is sent after the third.
C9_LowAfterThreeEggs ==
    [][/\ ThreeEggsTotal'
       /\ ThreeEggsStep =>
            /\ remainingBudget' = 2500
            /\ Len(Sent) > 0
            /\ Sent[Len(Sent)] = println(LowBudget)]_vars

\* C9 as amended: with the budget at 100, three adds of the item priced 25
\* give total 75 and remaining 25, which is 25% of the budget and Normal:
\* the update is answered with the Budget frame of 25.00 and the percentage
\* line, and with no threshold token.
C9_NormalAfterThreeEggs ==
    [][/\ ThreeEggsTotal'
       /\ ThreeEggsStep =>
            /\ remainingBudget' = 2500
            /\ Sent = <<println(BudgetLabel \o <<"2", "5", ".", "0", "0">>),
                        println(PercentageLabel
                                \o <<"2", "5", ".", "0", "0">>)>>]_vars

\* C9 witness: three Eggs are in the cart, the server has read their frame
\* under a budget of 100.00 and its answer is in flight.
C9_Witness ==
    /\ itemCounts = [i \in 0..3 |-> IF i = 1 THEN 3 ELSE 0]
    /\ totalPrice = 7500
    /\ currentData = ThreeEggsFrame
    /\ totalBudget = 10000
    /\ remainingBudget = 2500
    /\ Len(toATmega) = 2
    /\ ~LowSent

(***************************************************************************)
(* Properties of the budget (BudgetSpec, Spec).                            *)
(***************************************************************************)
\* the step in which the server handles a submission of the budget form
SubmitStep == submissions' = submissions + 1

\* C13: a budget submission with amount b makes the budget b and the
\* remaining budget b, whatever the budget, the remaining budget and the cart
\* were, and reports b to the scanner; it leaves the quantities and the total
\* of the scanner and the last frame the server received as they were.
C13_SubmissionResets ==
    [][SubmitStep =>
         /\ totalBudget' \in {0, 4000, 10000}
         /\ remainingBudget' = totalBudget'
         /\ Sent = <<println(BudgetLabel \o FloatToStr(totalBudget'))>>
         /\ UNCHANGED <<itemCounts, totalPrice, currentData>>]_vars

\* C13 witness: under a budget of 100.00 the frame of one Egg was answered
\* with a remaining budget of 75.00; then 40.00 was submitted and both the
\* budget and the remaining budget are 40.00, the cart and the frame kept.
C13_Witness ==
    /\ submissions = 1
    /\ itemCounts = [i \in 0..3 |-> IF i = 1 THEN 1 ELSE 0]
    /\ currentData = println(sendStatusToESP(itemCounts, totalPrice))
    /\ Len(toATmega) = 3
    /\ toATmega[1] = println(BudgetLabel \o <<"7", "5", ".", "0", "0">>)
    /\ toATmega[3] = println(BudgetLabel \o <<"4", "0", ".", "0", "0">>)
    /\ totalBudget = 4000
    /\ remainingBudget = 4000

\* the cart total carried by the last ledger frame the server processed: the
\* amount written after Total, in its last piece; 0 if it processed none
LastFrameTotal ==
    IF startsWith(currentData, UpdatePrefix)
    THEN LET pieces == SplitAt(SubSeq(currentData, Len(UpdatePrefix) + 1,
                                      Len(currentData)), ";")
             last == pieces[Len(pieces)]
         IN  IF startsWith(last, TotalMarker)
             THEN toFloat(SubSeq(last, Len(TotalMarker) + 1, Len(last)))
             ELSE 0
    ELSE 0

\* C14: in every reachable state of the server the remaining budget is the
\* budget minus the cart total of the last ledger frame processed (0 if
\* none), for any interleaving of ledger updates and budget submissions.
C14_RemainingIsBudgetLessTotal ==
    remainingBudget = totalBudget - LastFrameTotal

(***************************************************************************)
(* Properties of the scanner's loop (LoopSpec).                            *)
(***************************************************************************)
\* C15 as stated: an iteration of the scanner's loop handles at most one
\* event: of a trigger activation or dwell timeout, an inbound frame and a
\* tag scan, no two are handled in the same iteration.
C15_OneEventPerIteration == Len(handled) <= 1

\* C15 as amended: an iteration of the scanner's loop handles at most one
\* event of each kind, one after the other in program order: the trigger or
\* the dwell timeout in checkButton, then one inbound frame, then one tag
\* scan; up to three events are handled in the same iteration, never two at
\* the same time.
C15_OneOfEachKindInOrder ==
    /\ handled \in {<<>>, <<"trigger">>, <<"frame">>, <<"scan">>,
                     <<"trigger", "frame">>, <<"trigger", "scan">>,
                     <<"frame", "scan">>, <<"trigger", "frame", "scan">>}
    /\ pc = "button" => handled = <<>>
    /\ pc = "serial" => handled \in {<<>>, <<"trigger">>}
    /\ pc = "card" => (Len(handled) = 0 \/ handled[Len(handled)] # "scan")
    /\ pc = "delay" => (Len(handled) > 0 /\ handled[Len(handled)] = "scan")

\* C15 witness: in one iteration the button was taken as the entry into
\* Remove, a line from the server was read and a tag was scanned.
C15_Witness ==
    /\ pc = "delay"
    /\ handled = <<"trigger", "frame", "scan">>
    /\ sincePressed = 0

\* C16: the item removed after a press of the button is the item scanned
\* last before the press: a scan handled in Remove mode with no other scan
\* since the press decrements only the item of the tag scanned before.
C16_RemovesLastScanned ==
    [][(ScanStep /\ inRemoveMode /\ lcd = RemoveText
          /\ itemCounts' # itemCounts) => card' = lastScanned]_vars

(***************************************************************************)
(* Properties of the decoder on frames from any sender (DecodeSpec).       *)
(***************************************************************************)
\* the pieces of the frame the server holds: the text after Update: up to
\* the line end, cut at every ';'
FramePieces ==
    SplitAt(SubSeq(currentData, Len(UpdatePrefix) + 1, Len(currentData) - 1),
            ";")

\* the name,quantity pairs of the frame the server holds, in order
FramePairs ==
    SelectSeq(FramePieces,
              LAMBDA piece : /\ ~startsWith(piece, TotalMarker)
                             /\ \E k \in 1..Len(piece) : piece[k] = ",")

\* the name and the quantity stated by a pair
PairName(piece) ==
    SubSeq(piece, 1, (CHOOSE k \in 1..Len(piece) :
                         piece[k] = "," /\ \A j \in 1..(k - 1) : piece[j] # ",")
                     - 1)
PairQuantity(piece) ==
    toInt(SubSeq(piece, Len(PairName(piece)) + 2, Len(piece)))

\* the frame the server holds carries the Total, marker
HasTotal == indexOf(currentData, TotalMarker) # -1

\* the rows shown are the pairs of the frame, each with its name and
\* quantity
RowsArePairs ==
    /\ Len(page.rows) = Len(FramePairs)
    /\ \A k \in 1..Len(page.rows) :
          /\ k <= Len(FramePairs)
          /\ page.rows[k].itemName = PairName(FramePairs[k])
          /\ toInt(page.rows[k].itemQuantity) = PairQuantity(FramePairs[k])

\* C17: for an Update frame without the Total, marker the decoded total is
\* 0: the remaining budget becomes the budget and the total shown is 0; and
\* the pairs of the frame are all decoded.
C17_MissingTotalDegrades ==
    (FrameRead /\ ~HasTotal) =>
       /\ remainingBudget = totalBudget
       /\ FrameShown => /\ toFloat(page.totalAmount) = 0
                        /\ RowsArePairs

\* the name is one of the server's catalog
Known(name) == \E i \in 0..3 : name = itemNames[i]

\* the frame the server holds without the pairs of unknown names
KnownOnly ==
    LET RECURSIVE Join(_)
        Join(pieces) ==
            IF pieces = <<>> THEN <<>>
            ELSE IF Len(pieces) = 1 THEN pieces[1]
            ELSE pieces[1] \o <<";">> \o Join(Tail(pieces))
    IN  UpdatePrefix
        \o Join(SelectSeq(FramePieces,
                          LAMBDA piece :
                             \/ startsWith(piece, TotalMarker)
                             \/ ~(\E k \in 1..Len(piece) : piece[k] = ",")
                             \/ Known(PairName(piece))))
        \o <<"\r">>

\* C18: in a frame with its total, a pair whose name is not in the catalog
\* is decoded with unit price 0, line price 0 and its stated quantity; the
\* other pairs and the total are decoded as they are from the same frame
\* without that pair, and so is the remaining budget.
C18_UnknownNamePricedZero ==
    (FrameShown /\ HasTotal) =>
       /\ RowsArePairs
       /\ \A k \in 1..Len(page.rows) :
             IF Known(page.rows[k].itemName)
             THEN \E i \in 0..3 :
                     /\ page.rows[k].itemName = itemNames[i]
                     /\ page.rows[k].unitPrice = itemPrices[i]
                     /\ page.rows[k].itemTotalPrice
                           = itemPrices[i] * toInt(page.rows[k].itemQuantity)
             ELSE /\ page.rows[k].unitPrice = 0
                  /\ page.rows[k].itemTotalPrice = 0
       /\ SelectSeq(page.rows, LAMBDA row : Known(row.itemName))
            = formatItemLines(KnownOnly).rows
       /\ page.totalAmount = formatItemLines(KnownOnly).totalAmount
       /\ remainingBudget = totalBudget - extractTotalAmount(KnownOnly)

\* C18 witness: the frame Tea,2;Egg,1;Total,57.00 has been decoded: two
\* rows, the first of a name the catalog does not hold.
C18_Witness ==
    /\ FrameShown
    /\ HasTotal
    /\ Len(page.rows) = 2
    /\ page.rows[1].itemName = <<"T", "e", "a">>
    /\ page.rows[1].itemQuantity = <<"2">>
    /\ page.rows[2].itemName = itemNames[1]
    /\ toFloat(page.totalAmount) = 5700

(***************************************************************************)
(* Properties of the threshold signals over a session (Spec).              *)
(***************************************************************************)
\* a threshold token is among the lines the server sends in the step
TokenSent ==
    \E k \in 1..Len(Sent) :
       Sent[k] = println(LowBudget) \/ Sent[k] = println(NoBudget)

\* C19: every ledger update the server processes under a budget > 0 with
\* 0 < remaining/budget*100 <= 20 is answered with LowBudget, and every one
\* with remaining/budget*100 <= 0 with NoBudget, whatever the update before
\* was answered with; and no step other than a ledger update or a budget
\* submission sends a threshold token.
C19_NoDebouncing ==
    [][/\ (ServerReadStep /\ totalBudget > 0 /\ remainingBudget' > 0
            /\ remainingBudget' * 100 <= 20 * totalBudget)
           => (Len(Sent) = 3 /\ Sent[3] = println(LowBudget))
       /\ (ServerReadStep /\ totalBudget > 0 /\ remainingBudget' <= 0)
           => (Len(Sent) = 3 /\ Sent[3] = println(NoBudget))
       /\ (~ServerReadStep /\ ~SubmitStep) => ~TokenSent]_vars

\* C19 witness: under a budget of 40.00 the update to a total of 32.00 left
\* 8.00 (20%, Low), which the scanner has read; the next update, to a total
\* of 39.00, leaves 1.00 (2.5%, Low again) and LowBudget is sent again.
C19_Witness ==
    /\ totalBudget = 4000
    /\ budget = 800
    /\ remainingBudget = 100
    /\ toATmega = <<println(BudgetLabel \o <<"1", ".", "0", "0">>),
                    println(PercentageLabel \o <<"2", ".", "5", "0">>),
                    println(LowBudget)>>

(***************************************************************************)
(* Properties of the dwell time (Spec).                                    *)
(***************************************************************************)
\* C20: a scan of a catalog item handled more than 5000 ms after the entry
\* into Remove is applied as an add, in every execution, also when the
\* handling of a line or a feedback delay lies between the timeout test and
\* the reader poll.
C20_LateScanAdds ==
    [][(ScanStep /\ Recognized(card') /\ sincePressed > DwellMs)
         => itemCounts' = [itemCounts EXCEPT ![ItemOf(card')] = @ + 1]]_vars

(***************************************************************************)
(* Properties of the link under loss (LossySpec).                          *)
(***************************************************************************)
\* the name,quantity pairs the server decodes from the line it read last
DecodedItems ==
    LET rows == formatItemLines(currentData).rows
    IN  {<<rows[k].itemName, toInt(rows[k].itemQuantity)>> : k \in 1..Len(rows)}

\* the name,quantity pairs of the items the scanner holds
LedgerItems ==
    {<<itemNames[i], itemCounts[i]>> : i \in {j \in 0..3 : itemCounts[j] > 0}}

\* C21: whenever the server has processed the Update frame the scanner sent
\* last (no budget is submitted during the shopping), the server's remaining
\* budget is the budget less the scanner's cart total and the items the
\* server decodes are the scanner's items of quantity > 0, however many
\* earlier frames were lost.
C21_SelfHealing ==
    latest = "read" =>
        /\ remainingBudget = totalBudget - totalPrice
        /\ DecodedItems = LedgerItems

\* the server has read the latest frame after two earlier ones were lost,
\* and the cart is not empty
C21_Witness ==
    /\ latest = "read"
    /\ lost = MaxLost
    /\ totalPrice > 0

(***************************************************************************)
(* Properties of the scan of a tag outside the catalog (Spec).             *)
(***************************************************************************)
\* C22: the scan of a tag that equals no catalog fingerprint leaves every
\* quantity, the cart total and the mode as they were and sends no Update
\* frame (the display reports the unknown item); a tag is identified as an
\* item only when all four of its bytes equal that item's fingerprint.
C22_UnknownTagNoEffect ==
    [][ScanStep =>
          /\ ~Recognized(card') =>
                /\ itemCounts' = itemCounts
                /\ totalPrice' = totalPrice
                /\ inRemoveMode' = inRemoveMode
                /\ toESP' = toESP
                /\ lcd' = UnknownText
          /\ identifyItem(card') # -1 =>
                \A j \in 1..4 : card'[j] = itemUIDs[identifyItem(card')][j]]_vars

\* a tag that differs from Milk's in its last byte only has been scanned in
\* Remove mode with Milk in the cart: the mode is still Remove
C22_Witness ==
    /\ pc = "delay"
    /\ card = StrangerUID
    /\ inRemoveMode
    /\ itemCounts[0] > 0
    /\ lcd = UnknownText

(***************************************************************************)
(* Properties of the scanner's inbound lines (Spec).                       *)
(***************************************************************************)
\* the step in which the scanner runs its serial block
SerialStep == pc = "serial" /\ pc' = "card"

\* the line that waits is no Budget frame and no threshold token
UnknownPayload(line) ==
    /\ ~startsWith(trim(line), BudgetPrefix)
    /\ trim(line) # LowBudget
    /\ trim(line) # NoBudget

\* C23: no inbound line changes the ledger or the mode: the serial block
\* leaves every quantity, the cart total and the mode as they were, whatever
\* line it handles (a Budget frame, LowBudget, NoBudget or anything else),
\* and a line of an unknown payload leaves the stored budget as it was too.
C23_InboundLeavesLedger ==
    [][SerialStep =>
          /\ itemCounts' = itemCounts
          /\ totalPrice' = totalPrice
          /\ inRemoveMode' = inRemoveMode
          /\ (Len(toATmega) > 0 /\ UnknownPayload(Head(toATmega)))
                => budget' = budget]_vars

\* the scanner, in Remove mode with a cart that is not empty and a budget
\* stored, has just handled the "Budget Percentage:" line of an update (the
\* LowBudget token that follows it still waits)
C23_Witness ==
    /\ pc = "card"
    /\ toATmega = <<println(LowBudget)>>
    /\ inRemoveMode
    /\ totalPrice > 0
    /\ budget > 0

(***************************************************************************)
(* Properties of the server's reply to an update (Spec).                   *)
(***************************************************************************)
\* the line is a Budget frame, as the scanner tells one
IsBudgetFrame(line) == startsWith(trim(line), BudgetPrefix)

\* the line is a threshold token, as the scanner tells one
IsToken(line) == trim(line) = LowBudget \/ trim(line) = NoBudget

\* the value the scanner stores from a Budget frame
StoredFrom(line) == toFloat(substring(trim(line), 7))

\* C24: for every Update frame the server processes it sends exactly one
\* Budget frame, which carries the remaining budget it has just computed,
\* and after it at most one threshold token (never LowBudget and NoBudget
\* for the same update); the value the scanner stores from that Budget
\* frame is the server's remaining budget at the time it was sent.
C24_ReplyProtocol ==
    [][ServerReadStep =>
          /\ Len(Sent) >= 1
          /\ Sent[1] = println(BudgetLabel \o FloatToStr(remainingBudget'))
          /\ IsBudgetFrame(Sent[1])
          /\ \A k \in 2..Len(Sent) : ~IsBudgetFrame(Sent[k])
          /\ Cardinality({k \in 1..Len(Sent) : IsToken(Sent[k])}) <= 1
          /\ StoredFrom(Sent[1]) = remainingBudget']_vars

\* the scanner has stored the negative remaining budget of an update whose
\* NoBudget token still waits behind the "Budget Percentage:" line
C24_Witness ==
    /\ pc = "card"
    /\ Len(toATmega) = 2
    /\ toATmega[2] = println(NoBudget)
    /\ remainingBudget < 0
    /\ budget = remainingBudget

(***************************************************************************)
(* Properties of the two price tables (SnapshotSpec).                      *)
(***************************************************************************)
\* the sum of the row totals of the table the /data handler built
RECURSIVE RowsTotal(_, _)
RowsTotal(rows, k) ==
    IF k <= Len(rows) THEN rows[k].itemTotalPrice + RowsTotal(rows, k + 1) ELSE 0

\* C25: the price tables of the two nodes agree: for every Update frame the
\* scanner can send, the row totals the server computes from the decoded
\* pairs (its own unit price by name x the decoded quantity) add up to the
\* Total the frame carries.
C25_PriceTablesAgree ==
    FrameShown =>
        /\ RowsTotal(page.rows, 1) = toFloat(page.totalAmount)
        /\ RowsTotal(page.rows, 1) = extractTotalAmount(currentData)
        /\ \A k \in 1..Len(page.rows) :
              \E i \in 0..3 : /\ page.rows[k].itemName = itemNames[i]
                              /\ page.rows[k].unitPrice = itemPrices[i]

\* the frame of a cart that holds three of each of the four items has been
\* decoded: four rows that add up to the 210.00 the frame carries
C25_Witness ==
    /\ FrameShown
    /\ Len(page.rows) = 4
    /\ \A i \in 0..3 : itemCounts[i] = MaxQuantity
    /\ RowsTotal(page.rows, 1) = MaxQuantity * 7000

====
